---------------------------- MODULE Spec2Model ----------------------------
(***************************************************************************)
(* A model of @lumjs/web-draggable-list (src/index.js): the DraggableList  *)
(* class, its two event-binding strategies and its six drag handlers.      *)
(*                                                                         *)
(* An instance owns a container element (listElem) whose children are the  *)
(* list items.  The DOM state that the class reads and writes is modelled  *)
(* per container: the order of the children, the draggable attribute of    *)
(* every item and the number of live listeners on every element.           *)
(***************************************************************************)
EXTENDS Integers, Sequences, FiniteSets, TLC

\* ------------------------------------------------------------------ bounds

\* Number of <li> children of every list container.
NItems == 3

\* Longest explicit `...elems` argument list given to makeDraggable().
MaxElems == 2

\* ------------------------------------------------------------- the universe

\* The DraggableList instances (each over its own container).
Inst == {"a", "b"}

\* The list items of a container, named by their initial position.
Items == 1 .. NItems

\* `this.dragging = null`.
Null == 0

\* The container element itself, as a key of the registration Map.
ListElem == NItems + 1

Elems == Items \cup {ListElem}

\* An item argument that resolves to no element (querySelector gives null).
Bad == NItems + 2

\* Items that callers pass explicitly to makeDraggable().
ArgPool == {1, Bad}

\* A property of the event object that was never assigned (undefined).
Undefined == 0 - 2

DRAG_METHODS ==
  << "handleDragStart", "handleDragEnter", "handleDragOver",
     "handleDragLeave", "handleDrop", "handleDragEnd" >>

\* meth.replace('handle','').toLowerCase()
EventName(meth) ==
  CASE meth = "handleDragStart" -> "dragstart"
    [] meth = "handleDragEnter" -> "dragenter"
    [] meth = "handleDragOver"  -> "dragover"
    [] meth = "handleDragLeave" -> "dragleave"
    [] meth = "handleDrop"      -> "drop"
    [] meth = "handleDragEnd"   -> "dragend"

EventNames == { EventName(DRAG_METHODS[k]) : k \in 1 .. Len(DRAG_METHODS) }

\* The method a listener registered under `name` calls: this[meth](ev).
MethodFor(name) ==
  CHOOSE m \in { DRAG_METHODS[k] : k \in 1 .. Len(DRAG_METHODS) } :
    EventName(m) = name

\* DEF_OPTS, as far as the class reads it.  `preset` names where the six
\* hooks come from: "none" for the empty functions of DEF_OPTS, "classy"
\* for those of ClassyPreset.
DEF_OPTS ==
  [ autoRegister |-> "null", delegated |-> TRUE, enableTouch |-> TRUE,
    preset |-> "none" ]

\* The option fragments a caller may pass to the constructor, without a
\* preset.
OptSets ==
  [ autoRegister : {"null", "true", "false"},
    delegated    : BOOLEAN,
    enableTouch  : BOOLEAN,
    preset       : {"none"} ]

\* -------------------------------------------------------------------- state

VARIABLES
  phase,         \* [Inst -> "new" | "ready" | "failed"]: the constructor's outcome
  opts,          \* this.opts: of the merged options, those read after construction
  dragging,      \* this.dragging: the dragged item, or Null
  registration,  \* this.registration: element -> set of event names with a subscription
  listeners,     \* DOM: live listeners of the instance, per element and event name
  order,         \* DOM: the children of the container, in document order
  draggable,     \* DOM: the draggable attribute of every item
  entered,       \* this.entered: the counter ClassyPreset keeps on the instance
  classes,       \* DOM: the items whose classList holds opts.dragOverClass
  gesture,       \* the pointer: whether it drags, from where, and over what
  last           \* the most recent call: what was called and what it produced

vars ==
  << phase, opts, dragging, registration, listeners, order, draggable,
     entered, classes, gesture, last >>

\* An event object before any handler has seen it.
NewEvent(name, target) ==
  [ type |-> name, target |-> target,
    defaultPrevented |-> FALSE,
    propagationStopped |-> FALSE,
    immediateStopped |-> FALSE,
    effectAllowed |-> "uninitialized",
    dropEffect |-> "none",
    oldpos |-> Undefined, newpos |-> Undefined ]

NoEvent == NewEvent("none", Null)

\* The record of a call: `op` and its arguments, then what it produced: the
\* error thrown, the event object as the handlers left it, the hooks called,
\* the number of listeners that ran, and whether the call wired the touch
\* adapter to the container (enableDragDropTouch).  `was` and `from` are the
\* dragged reference and the item order that the call found; `again` says
\* that the caller made the same call, with the same arguments, just before.
Call(i, op) ==
  [ inst |-> i, op |-> op, opts |-> DEF_OPTS, enabled |-> FALSE, elems |-> << >>,
    error |-> "none", ev |-> NoEvent, hooks |-> << >>, delivered |-> 0,
    touch |-> FALSE, was |-> Null, from |-> << >>, again |-> FALSE ]

\* ------------------------------------------------------- the DOM operations

\* Faulty variant of indexOf(): positions counted from 1.
indexOf_FromOne(seq, elem) ==
  IF \E k \in 1 .. Len(seq) : seq[k] = elem
    THEN CHOOSE k \in 1 .. Len(seq) : seq[k] = elem
    ELSE 0 - 1

\* WC.ez.indexOf(elem): the 0-based position among the parent's children,
\* -1 when it is not a child.
indexOf(seq, elem) ==
  IF \E k \in 1 .. Len(seq) : seq[k] = elem
    THEN (CHOOSE k \in 1 .. Len(seq) : seq[k] = elem) - 1
    ELSE 0 - 1

\* The children without `elem` (a node is in one place only).
Detach(seq, elem) == SelectSeq(seq, LAMBDA x : x # elem)

InsertAt(seq, k, elem) ==
  SubSeq(seq, 1, k - 1) \o << elem >> \o SubSeq(seq, k, Len(seq))

\* Where `elem` is among the children (1-based); 0 when it is not one.
Place(seq, elem) ==
  IF \E k \in 1 .. Len(seq) : seq[k] = elem
    THEN CHOOSE k \in 1 .. Len(seq) : seq[k] = elem
    ELSE 0

\* Faulty variant of before(): the node lands one place too far, behind
\* target, as after() would put it.
before_Behind(seq, target, dragged) ==
  LET rest == Detach(seq, dragged)
  IN  InsertAt(rest, Place(rest, target) + 1, dragged)

\* target.before(dragged): the node leaves its place and becomes the
\* previous sibling of target.
before(seq, target, dragged) ==
  LET rest == Detach(seq, dragged)
  IN  InsertAt(rest, Place(rest, target), dragged)

\* Faulty variant of after(): a copy of the node is inserted and the node
\* itself stays where it was.
after_Clone(seq, target, dragged) ==
  InsertAt(seq, Place(seq, target) + 1, dragged)

\* target.after(dragged): the node leaves its place and becomes the next
\* sibling of target.
after(seq, target, dragged) ==
  LET rest == Detach(seq, dragged)
  IN  InsertAt(rest, Place(rest, target) + 1, dragged)


\* ------------------------------------------------------------ the instance

\* The fields and the DOM of instance i, with the context of one call.
Self(i) ==
  [ opts |-> opts[i], dragging |-> dragging[i],
    registration |-> registration[i], listeners |-> listeners[i],
    order |-> order[i], draggable |-> draggable[i],
    entered |-> entered[i], classes |-> classes[i],
    ev |-> NoEvent, hooks |-> << >>, error |-> "none", delivered |-> 0,
    touch |-> FALSE ]

\* get listItems(): the container's matching children, in document order.
listItems(s) == s.order

\* Faulty variant of ClassyPreset: onEnd leaves the classes where they are.
ClassyPreset_EndKeeps(s, name) ==
  CASE name = "onStart" -> [ s EXCEPT !.entered = 0 ]
    [] name = "onEnter" ->
         IF s.entered = Undefined
           THEN [ s EXCEPT !.classes = @ \cup {s.ev.target} ]
           ELSE [ s EXCEPT !.entered = @ + 1,
                           !.classes = IF s.entered = 0
                                         THEN @ \cup {s.ev.target} ELSE @ ]
    [] name = "onLeave" ->
         IF s.entered = Undefined
           THEN [ s EXCEPT !.classes = @ \ {s.ev.target} ]
           ELSE [ s EXCEPT !.entered = @ - 1,
                           !.classes = IF s.entered - 1 = 0
                                         THEN @ \ {s.ev.target} ELSE @ ]
    [] OTHER -> s

\* The hooks of ClassyPreset, run with the instance as `this`.  onEnter is
\* `if (!this.entered++) add`, onLeave is `if (!--this.entered) remove`; a
\* counter that was never set is undefined, turns into NaN under ++ and --,
\* and NaN passes both tests.  The preset has no onOver and no onDrop.
ClassyPreset(s, name) ==
  CASE name = "onStart" -> [ s EXCEPT !.entered = 0 ]
    [] name = "onEnter" ->
         IF s.entered = Undefined
           THEN [ s EXCEPT !.classes = @ \cup {s.ev.target} ]
           ELSE [ s EXCEPT !.entered = @ + 1,
                           !.classes = IF s.entered = 0
                                         THEN @ \cup {s.ev.target} ELSE @ ]
    [] name = "onLeave" ->
         IF s.entered = Undefined
           THEN [ s EXCEPT !.classes = @ \ {s.ev.target} ]
           ELSE [ s EXCEPT !.entered = @ - 1,
                           !.classes = IF s.entered - 1 = 0
                                         THEN @ \ {s.ev.target} ELSE @ ]
    [] name = "onEnd" ->
         [ s EXCEPT !.classes =
             @ \ { listItems(s)[k] : k \in 1 .. Len(listItems(s)) } ]
    [] OTHER -> s

\* this.opts.onX.call(this, ev): the hook sees the instance and the event as
\* they are at the time of the call.
CallHook(s, name) ==
  LET s1 == [ s EXCEPT !.hooks =
                Append(@, [ name |-> name, dragging |-> s.dragging,
                            order |-> s.order, ev |-> s.ev ]) ]
  IN  IF s.opts.preset = "classy" THEN ClassyPreset(s1, name) ELSE s1

\* Faulty variant of handleDragStart(): the hook runs but the dragged
\* reference keeps its old value.
handleDragStart_KeepOld(s) ==
  CallHook([ s EXCEPT !.ev.effectAllowed = "move" ], "onStart")

handleDragStart(s) ==
  CallHook([ s EXCEPT !.dragging = s.ev.target,
                      !.ev.effectAllowed = "move" ], "onStart")

\* Faulty variant of handleDragOver(): the `if (this.dragging)` guard is
\* missing.
handleDragOver_Unguarded(s) ==
  CallHook([ s EXCEPT !.ev.defaultPrevented = TRUE,
                      !.ev.dropEffect = "move" ], "onOver")

handleDragOver(s) ==
  IF s.dragging # Null
    THEN CallHook([ s EXCEPT !.ev.defaultPrevented = TRUE,
                             !.ev.dropEffect = "move" ], "onOver")
    ELSE s

handleDragEnter(s) ==
  IF s.dragging # Null THEN CallHook(s, "onEnter") ELSE s

handleDragLeave(s) ==
  IF s.dragging # Null THEN CallHook(s, "onLeave") ELSE s

\* Faulty variant of handleDragEnd(): the dragged reference is cleared
\* before the hook runs.
handleDragEnd_ClearFirst(s) ==
  CallHook([ s EXCEPT !.dragging = Null ], "onEnd")

\* Faulty variant of handleDragEnd(): the dragged reference is cleared only
\* by a drop, so a cancelled gesture leaves it set.
handleDragEnd_NoClear(s) == CallHook(s, "onEnd")

handleDragEnd(s) ==
  [ CallHook(s, "onEnd") EXCEPT !.dragging = Null ]

\* Faulty variant of handleDrop(): the positions are read after the move.
handleDrop_IndexAfterMove(s) ==
  IF s.dragging = Null
    THEN s
    ELSE
      LET s1 == [ s EXCEPT !.ev.propagationStopped = TRUE,
                           !.ev.immediateStopped = TRUE,
                           !.ev.defaultPrevented = TRUE ]
          target  == s1.ev.target
          dragged == s1.dragging
      IN  IF dragged # target
            THEN
              LET ia == indexOf(s1.order, dragged)
                  ib == indexOf(s1.order, target)
                  s2 == [ s1 EXCEPT !.order =
                            IF ia > ib THEN before(@, target, dragged)
                                       ELSE after(@, target, dragged) ]
                  s3 == [ s2 EXCEPT !.ev.oldpos = indexOf(s2.order, dragged),
                                    !.ev.newpos = indexOf(s2.order, target) ]
              IN  CallHook(s3, "onDrop")
            ELSE s1

\* Faulty variant of handleDrop(): an accepted drop ends the session.
handleDrop_EndsSession(s) ==
  IF s.dragging = Null
    THEN s
    ELSE
      LET s1 == [ s EXCEPT !.ev.propagationStopped = TRUE,
                           !.ev.immediateStopped = TRUE,
                           !.ev.defaultPrevented = TRUE ]
          target  == s1.ev.target
          dragged == s1.dragging
      IN  IF dragged # target
            THEN
              LET ia == indexOf(s1.order, dragged)
                  ib == indexOf(s1.order, target)
                  s2 == [ s1 EXCEPT !.order =
                            IF ia > ib THEN before(@, target, dragged)
                                       ELSE after(@, target, dragged) ]
                  s3 == [ s2 EXCEPT !.ev.oldpos = ia, !.ev.newpos = ib ]
              IN  [ CallHook(s3, "onDrop") EXCEPT !.dragging = Null ]
            ELSE s1

\* Faulty variant of handleDrop(): the default is prevented and the
\* propagation stopped for an accepted drop only.
handleDrop_StopsAcceptedOnly(s) ==
  IF s.dragging = Null
    THEN s
    ELSE
      LET target  == s.ev.target
          dragged == s.dragging
      IN  IF dragged # target
            THEN
              LET s1 == [ s EXCEPT !.ev.propagationStopped = TRUE,
                                   !.ev.immediateStopped = TRUE,
                                   !.ev.defaultPrevented = TRUE ]
                  ia == indexOf(s1.order, dragged)
                  ib == indexOf(s1.order, target)
                  s2 == [ s1 EXCEPT !.order =
                            IF ia > ib THEN before(@, target, dragged)
                                       ELSE after(@, target, dragged) ]
                  s3 == [ s2 EXCEPT !.ev.oldpos = ia, !.ev.newpos = ib ]
              IN  CallHook(s3, "onDrop")
            ELSE s

\* Faulty variant of handleDrop(): the `dragged !== target` test is missing.
handleDrop_NoSelfTest(s) ==
  IF s.dragging = Null
    THEN s
    ELSE
      LET s1 == [ s EXCEPT !.ev.propagationStopped = TRUE,
                           !.ev.immediateStopped = TRUE,
                           !.ev.defaultPrevented = TRUE ]
          target  == s1.ev.target
          dragged == s1.dragging
          ia == indexOf(s1.order, dragged)
          ib == indexOf(s1.order, target)
          s2 == [ s1 EXCEPT !.order =
                    IF ia > ib THEN before(@, target, dragged)
                               ELSE after(@, target, dragged) ]
          s3 == [ s2 EXCEPT !.ev.oldpos = ia, !.ev.newpos = ib ]
      IN  CallHook(s3, "onDrop")

handleDrop(s) ==
  IF s.dragging = Null
    THEN s
    ELSE
      LET s1 == [ s EXCEPT !.ev.propagationStopped = TRUE,
                           !.ev.immediateStopped = TRUE,
                           !.ev.defaultPrevented = TRUE ]
          target  == s1.ev.target
          dragged == s1.dragging
      IN  IF dragged # target
            THEN
              LET ia == indexOf(s1.order, dragged)
                  ib == indexOf(s1.order, target)
                  s2 == [ s1 EXCEPT !.order =
                            IF ia > ib THEN before(@, target, dragged)
                                       ELSE after(@, target, dragged) ]
                  s3 == [ s2 EXCEPT !.ev.oldpos = ia, !.ev.newpos = ib ]
              IN  CallHook(s3, "onDrop")
            ELSE s1

\* this[meth](ev)
Invoke(meth, s) ==
  CASE meth = "handleDragStart" -> handleDragStart(s)
    [] meth = "handleDragEnter" -> handleDragEnter(s)
    [] meth = "handleDragOver"  -> handleDragOver(s)
    [] meth = "handleDragLeave" -> handleDragLeave(s)
    [] meth = "handleDrop"      -> handleDrop(s)
    [] meth = "handleDragEnd"   -> handleDragEnd(s)

\* The n listeners that one element holds for the event run in turn, unless
\* one of them stops the immediate propagation.
RECURSIVE RunListeners(_, _, _)
RunListeners(s, meth, n) ==
  IF n = 0 \/ s.ev.immediateStopped
    THEN s
    ELSE RunListeners([ Invoke(meth, s) EXCEPT !.delivered = @ + 1 ], meth, n - 1)

\* The DOM dispatches the event at an item: first the listeners on the item
\* itself (direct binding), then, unless propagation was stopped, the
\* listeners on the container, whose selector (opts.itemMatch) the item
\* matches (delegated binding).
DispatchEvent(s, name, target) ==
  LET meth == MethodFor(name)
      s0 == [ s EXCEPT !.ev = NewEvent(name, target) ]
      s1 == RunListeners(s0, meth, s0.listeners[target][name])
  IN  IF s1.ev.propagationStopped
        THEN s1
        ELSE RunListeners(s1, meth, s1.listeners[ListElem][name])

\* this.registration.get(elem) ?? {}
Registry(s, elem) ==
  IF elem \in DOMAIN s.registration THEN s.registration[elem] ELSE {}

\* Faulty variant of Rebind(): the subscription found in the registry is
\* overwritten without being switched off first.
Rebind_NoOff(s, elem, enabled) ==
  LET on(name) == IF enabled THEN 1 ELSE 0
  IN  [ s EXCEPT
          !.listeners[elem] = [ name \in EventNames |-> @[name] + on(name) ],
          !.registration =
             [ e \in DOMAIN @ \cup {elem} |->
                 IF e = elem
                   THEN IF enabled THEN EventNames ELSE {}
                   ELSE @[e] ] ]

\* The loop over DRAG_METHODS that both binding methods run on one element:
\* a subscription found in the registry is switched off and deleted, then a
\* new listener is installed when `enabled`; the registry is stored back.
Rebind(s, elem, enabled) ==
  LET registry == Registry(s, elem)
      off(name) == IF name \in registry THEN 1 ELSE 0
      on(name)  == IF enabled THEN 1 ELSE 0
  IN  [ s EXCEPT
          !.listeners[elem] =
             [ name \in EventNames |-> @[name] - off(name) + on(name) ],
          !.registration =
             [ e \in DOMAIN @ \cup {elem} |->
                 IF e = elem
                   THEN IF enabled THEN EventNames ELSE {}
                   ELSE @[e] ] ]

\* Faulty variant of registerDelegation(): the subscriptions are dropped
\* from the registry but never switched off.
registerDelegation_NoOff(s, enabled) ==
  IF enabled
    THEN Rebind(s, ListElem, TRUE)
    ELSE [ s EXCEPT !.registration =
             [ e \in DOMAIN @ \cup {ListElem} |->
                 IF e = ListElem THEN {} ELSE @[e] ] ]

\* Faulty variant of registerDelegation(): switching the delegation off
\* also drops the dragged reference.
registerDelegation_ResetsSession(s, enabled) ==
  LET s1 == Rebind(s, ListElem, enabled)
  IN  IF enabled THEN s1 ELSE [ s1 EXCEPT !.dragging = Null ]

registerDelegation(s, enabled) == Rebind(s, ListElem, enabled)

\* Faulty variant of makeItemDraggable(): the `if (!delegated)` test is
\* missing, so every call binds the item directly.
makeItemDraggable_AlwaysBind(s, enabled, elem) ==
  Rebind([ s EXCEPT !.draggable[elem] = IF enabled THEN "true" ELSE "false" ],
         elem, enabled)

\* One iteration of makeDraggable's loop over the (resolved) element.
makeItemDraggable(s, enabled, elem) ==
  LET s1 == [ s EXCEPT !.draggable[elem] = IF enabled THEN "true" ELSE "false" ]
  IN  IF ~ s.opts.delegated THEN Rebind(s1, elem, enabled) ELSE s1

\* Faulty variant of makeDraggable's loop: an element that does not resolve
\* is reported, but the loop goes on with the elements after it.
RECURSIVE makeDraggableLoop_SkipsInvalid(_, _, _)
makeDraggableLoop_SkipsInvalid(s, enabled, elems) ==
  IF elems = << >>
    THEN s
    ELSE IF Head(elems) \notin Items
      THEN makeDraggableLoop_SkipsInvalid([ s EXCEPT !.error = "TypeError" ],
                                          enabled, Tail(elems))
      ELSE makeDraggableLoop_SkipsInvalid(
             makeItemDraggable(s, enabled, Head(elems)), enabled, Tail(elems))

\* for (let elem of elems): an element that does not resolve throws, and the
\* iterations before it have already taken effect.
RECURSIVE makeDraggableLoop(_, _, _)
makeDraggableLoop(s, enabled, elems) ==
  IF elems = << >>
    THEN s
    ELSE IF Head(elems) \notin Items
      THEN [ s EXCEPT !.error = "TypeError" ]
      ELSE makeDraggableLoop(makeItemDraggable(s, enabled, Head(elems)),
                             enabled, Tail(elems))

makeDraggable(s, enabled, elems) ==
  makeDraggableLoop(s, enabled, IF Len(elems) = 0 THEN listItems(s) ELSE elems)

\* What the instance reads of this.opts once the constructor has returned.
Kept(o) == [ delegated |-> o.delegated, preset |-> o.preset ]

\* Faulty variant of construct(): `opts.autoRegister || !opts.delegated`
\* in place of `??`, so that an explicit false is overridden.
construct_AutoOr(s, o) ==
  LET s0 == [ s EXCEPT !.opts = Kept(o), !.dragging = Null,
                       !.registration = << >> ]
      s1 == IF o.enableTouch THEN [ s0 EXCEPT !.touch = TRUE ] ELSE s0
      s2 == IF o.delegated THEN registerDelegation(s1, TRUE) ELSE s1
      auto == o.autoRegister = "true" \/ ~ o.delegated
  IN  IF auto THEN makeDraggable(s2, TRUE, << >>) ELSE s2

\* The constructor, when listElem resolves to an element.
construct(s, o) ==
  LET s0 == [ s EXCEPT !.opts = Kept(o), !.dragging = Null,
                       !.registration = << >> ]
      s1 == IF o.enableTouch THEN [ s0 EXCEPT !.touch = TRUE ] ELSE s0
      s2 == IF o.delegated THEN registerDelegation(s1, TRUE) ELSE s1
      auto == IF o.autoRegister = "null" THEN ~ o.delegated
                                         ELSE o.autoRegister = "true"
  IN  IF auto THEN makeDraggable(s2, TRUE, << >>) ELSE s2

\* ------------------------------------------------------------------ actions

\* Faulty variant of Store(): the dragged reference is kept in one place
\* for all instances (module state in place of an instance field).
Store_SharedSession(i, s, call) ==
  /\ opts' = [ opts EXCEPT ![i] = s.opts ]
  /\ dragging' = [ j \in Inst |-> s.dragging ]
  /\ registration' = [ registration EXCEPT ![i] = s.registration ]
  /\ listeners' = [ listeners EXCEPT ![i] = s.listeners ]
  /\ order' = [ order EXCEPT ![i] = s.order ]
  /\ draggable' = [ draggable EXCEPT ![i] = s.draggable ]
  /\ entered' = [ entered EXCEPT ![i] = s.entered ]
  /\ classes' = [ classes EXCEPT ![i] = s.classes ]
  /\ last' = [ call EXCEPT !.error = s.error, !.ev = s.ev,
                           !.hooks = s.hooks, !.delivered = s.delivered,
                           !.touch = s.touch,
                           !.was = dragging[i], !.from = order[i],
                           !.again = /\ call.op \in {"registerDelegation",
                                                      "makeDraggable"}
                                     /\ last.op = call.op
                                     /\ last.inst = call.inst
                                     /\ last.enabled = call.enabled
                                     /\ last.elems = call.elems ]

\* The call on instance i took the instance and the DOM from s0 to s.
Store(i, s, call) ==
  /\ opts' = [ opts EXCEPT ![i] = s.opts ]
  /\ dragging' = [ dragging EXCEPT ![i] = s.dragging ]
  /\ registration' = [ registration EXCEPT ![i] = s.registration ]
  /\ listeners' = [ listeners EXCEPT ![i] = s.listeners ]
  /\ order' = [ order EXCEPT ![i] = s.order ]
  /\ draggable' = [ draggable EXCEPT ![i] = s.draggable ]
  /\ entered' = [ entered EXCEPT ![i] = s.entered ]
  /\ classes' = [ classes EXCEPT ![i] = s.classes ]
  /\ last' = [ call EXCEPT !.error = s.error, !.ev = s.ev,
                           !.hooks = s.hooks, !.delivered = s.delivered,
                           !.touch = s.touch,
                           !.was = dragging[i], !.from = order[i],
                           !.again = /\ call.op \in {"registerDelegation",
                                                      "makeDraggable"}
                                     /\ last.op = call.op
                                     /\ last.inst = call.inst
                                     /\ last.enabled = call.enabled
                                     /\ last.elems = call.elems ]

\* new DraggableList(listElem, ...opts) with a listElem that is an element
\* and options among O.
ConstructWith(i, O) ==
  /\ phase[i] = "new"
  /\ \E o \in O :
       /\ phase' = [ phase EXCEPT ![i] = "ready" ]
       /\ Store(i, construct(Self(i), o),
                [ Call(i, "constructor") EXCEPT !.opts = o ])
       /\ UNCHANGED gesture

Construct(i) == ConstructWith(i, OptSets)

\* Faulty variant of ConstructInvalid(): listElem is validated at the end of
\* the constructor, after the touch adapter and the listeners were set up.
ConstructInvalid_LateTest(i) ==
  /\ phase[i] = "new"
  /\ \E o \in OptSets :
       /\ phase' = [ phase EXCEPT ![i] = "failed" ]
       /\ Store(i, [ construct(Self(i), o) EXCEPT !.error = "TypeError" ],
                [ Call(i, "constructor") EXCEPT !.opts = o ])
       /\ UNCHANGED gesture

\* new DraggableList(listElem, ...opts) with a listElem that is no element:
\* this.opts is assigned, then the constructor throws.
ConstructInvalid(i) ==
  /\ phase[i] = "new"
  /\ \E o \in OptSets :
       /\ phase' = [ phase EXCEPT ![i] = "failed" ]
       /\ Store(i, [ Self(i) EXCEPT !.opts = Kept(o), !.error = "TypeError" ],
                [ Call(i, "constructor") EXCEPT !.opts = o ])
       /\ UNCHANGED gesture

\* list.registerDelegation(enabled)
RegisterDelegation(i) ==
  /\ phase[i] = "ready"
  /\ \E enabled \in BOOLEAN :
       /\ Store(i, registerDelegation(Self(i), enabled),
                [ Call(i, "registerDelegation") EXCEPT !.enabled = enabled ])
       /\ UNCHANGED << phase, gesture >>

\* The explicit element lists: none, or up to MaxElems different entries of
\* the pool, in any order.
ElemLists ==
  { l \in UNION { [ 1 .. n -> ArgPool ] : n \in 0 .. MaxElems } :
      \A j, k \in 1 .. Len(l) : l[j] = l[k] => j = k }

\* list.makeDraggable(enabled, ...elems) with the elements among L.
MakeDraggableWith(i, L) ==
  /\ phase[i] = "ready"
  /\ \E enabled \in BOOLEAN, elems \in L :
       /\ Store(i, makeDraggable(Self(i), enabled, elems),
                [ Call(i, "makeDraggable") EXCEPT !.enabled = enabled,
                                                  !.elems = elems ])
       /\ UNCHANGED << phase, gesture >>

MakeDraggable(i) == MakeDraggableWith(i, ElemLists)

\* The event `name` is dispatched at item `target` of the container of
\* instance i.
Deliver(i, name, target) ==
  /\ phase[i] \in {"new", "ready"}
  /\ Store(i, DispatchEvent(Self(i), name, target), Call(i, "dispatch"))
  /\ UNCHANGED phase

\* The browser (or the touch adapter, or a test) dispatches one of the
\* events N at one of the items T of the container.
DispatchTo(i, N, T) ==
  /\ \E name \in N, target \in T : Deliver(i, name, target)
  /\ UNCHANGED gesture

\* Any of the six drag events, at any item.
Dispatch(i) == DispatchTo(i, EventNames, Items)

\* ------------------------------------------------------------ specification

NoOpts == Kept(DEF_OPTS)

\* The pointer drags nothing.
NoGesture == [ active |-> FALSE, source |-> Null, over |-> << >> ]

Init ==
  /\ phase = [ i \in Inst |-> "new" ]
  /\ opts = [ i \in Inst |-> NoOpts ]
  /\ dragging = [ i \in Inst |-> Null ]
  /\ registration = [ i \in Inst |-> << >> ]
  /\ listeners = [ i \in Inst |-> [ e \in Elems |-> [ n \in EventNames |-> 0 ] ] ]
  /\ order = [ i \in Inst |-> [ k \in Items |-> k ] ]
  /\ draggable = [ i \in Inst |-> [ k \in Items |-> "none" ] ]
  /\ entered = [ i \in Inst |-> Undefined ]
  /\ classes = [ i \in Inst |-> {} ]
  /\ gesture = NoGesture
  /\ last = Call("a", "none")

\* The instances that act in Spec.
SpecInst == {"a"}

Next ==
  \E i \in SpecInst :
    \/ Construct(i)
    \/ ConstructInvalid(i)
    \/ RegisterDelegation(i)
    \/ MakeDraggable(i)
    \/ Dispatch(i)

Spec == Init /\ [][Next]_vars

\* Two instances over two containers, both in use.  To keep the product of
\* their states small the callers pass the default autoRegister and
\* enableTouch and name no items, and the events are those of a plain
\* gesture (start, over, drop, end) at the first two items.
TwoOpts == { o \in OptSets : o.autoRegister = DEF_OPTS.autoRegister
                               /\ o.enableTouch = DEF_OPTS.enableTouch }

TwoTargets == {1, 2}

TwoEvents == {"dragstart", "dragover", "drop", "dragend"}

NextTwo ==
  \E i \in Inst :
    \/ ConstructWith(i, TwoOpts)
    \/ RegisterDelegation(i)
    \/ MakeDraggableWith(i, { << >> })
    \/ DispatchTo(i, TwoEvents, TwoTargets)

SpecTwo == Init /\ [][NextTwo]_vars

\* One instance built with ClassyPreset, and the pointer of a browser.  A
\* drag starts at an item and ends with a dragend at that item; in between
\* the pointer enters items and leaves them, and when it crosses from one
\* item to the next the browser fires the dragenter of the new item before
\* the dragleave of the old one, so that up to MaxOver items are entered
\* and not yet left.  `gesture.over` lists them, oldest first.
MaxOver == 2

ClassyOpts == { [ o EXCEPT !.preset = "classy" ] : o \in TwoOpts }

\* new DraggableList(listElem, ClassyPreset, opts)
ClassyConstruct(i) == ConstructWith(i, ClassyOpts)

\* The user starts to drag item t.
DragBegins(i) ==
  /\ ~ gesture.active
  /\ \E t \in Items :
       /\ Deliver(i, "dragstart", t)
       /\ gesture' = [ active |-> TRUE, source |-> t, over |-> << >> ]

\* The pointer comes over item t.
PointerEnters(i) ==
  /\ gesture.active
  /\ Len(gesture.over) < MaxOver
  /\ \E t \in Items :
       /\ \A k \in 1 .. Len(gesture.over) : gesture.over[k] # t
       /\ Deliver(i, "dragenter", t)
       /\ gesture' = [ gesture EXCEPT !.over = Append(@, t) ]

\* The pointer has left the item it was over first.
PointerLeaves(i) ==
  /\ gesture.active
  /\ gesture.over # << >>
  /\ Deliver(i, "dragleave", Head(gesture.over))
  /\ gesture' = [ gesture EXCEPT !.over = Tail(@) ]

\* The pointer moves over the item it came over last, or the user releases
\* the button there.
PointerOver(i) ==
  /\ gesture.active
  /\ gesture.over # << >>
  /\ \E name \in {"dragover", "drop"} :
       Deliver(i, name, gesture.over[Len(gesture.over)])
  /\ UNCHANGED gesture

\* The drag is over, with or without a drop.
DragEnds(i) ==
  /\ gesture.active
  /\ Deliver(i, "dragend", gesture.source)
  /\ gesture' = NoGesture

NextClassy ==
  \E i \in SpecInst :
    \/ ClassyConstruct(i)
    \/ DragBegins(i)
    \/ PointerEnters(i)
    \/ PointerLeaves(i)
    \/ PointerOver(i)
    \/ DragEnds(i)

SpecClassy == Init /\ [][NextClassy]_vars

\* ------------------------------------------------- vocabulary of the claims

\* The 0-based position of x in the item sequence.
PositionOf(seq, x) == (CHOOSE k \in 1 .. Len(seq) : seq[k] = x) - 1

\* seq holds every item exactly once.
IsItemOrder(seq) ==
  /\ Len(seq) = NItems
  /\ \A x \in Items : \E k \in 1 .. Len(seq) : seq[k] = x

\* The last call dispatched the event `name` and a listener of the instance
\* ran for it.
Delivered(name) ==
  /\ last.op = "dispatch"
  /\ last.ev.type = name
  /\ last.delivered >= 1

\* The names of the hooks the last call invoked, in order.
HookNames == [ k \in 1 .. Len(last.hooks) |-> last.hooks[k].name ]

\* The event object left untouched by the handlers.
Untouched(ev) ==
  /\ ~ ev.defaultPrevented
  /\ ~ ev.propagationStopped
  /\ ~ ev.immediateStopped

\* The session and the item order are as the last call found them.
SessionKept == dragging[last.inst] = last.was
OrderKept == order[last.inst] = last.from

\* A drop ran while a session was active.
DropInSession == Delivered("drop") /\ last.was # Null
AcceptedDrop == DropInSession /\ last.was # last.ev.target
SelfDrop == DropInSession /\ last.was = last.ev.target

\* The state a handler sees when the event `name` reaches it at `target`
\* with `dragged` held and the items in the order `seq`.
Scene(seq, dragged, name, target) ==
  [ Self("a") EXCEPT !.order = seq, !.dragging = dragged,
                     !.ev = NewEvent(name, target) ]

\* --------------------------------------------------------------- the claims

\* C1: drop-position law.  An accepted drop (session active, dragged #
\* target) moves the dragged item to immediately before the target when its
\* index before the move was greater than the target's, and to immediately
\* after the target otherwise; the other items keep their relative order.
\* [A,B,C,D] with A dropped on C gives [B,C,A,D], D dropped on B gives
\* [A,D,B,C].
C1_DropPositionLaw ==
  /\ AcceptedDrop =>
       LET d  == last.was
           t  == last.ev.target
           o  == last.from
           o2 == order[last.inst]
       IN  /\ IsItemOrder(o2)
           /\ IF PositionOf(o, d) > PositionOf(o, t)
                THEN PositionOf(o2, d) + 1 = PositionOf(o2, t)
                ELSE PositionOf(o2, d) = PositionOf(o2, t) + 1
           /\ \A x, y \in Items \ {d} :
                (PositionOf(o, x) < PositionOf(o, y))
                  <=> (PositionOf(o2, x) < PositionOf(o2, y))
  /\ handleDrop(Scene(<< 1, 2, 3, 4 >>, 1, "drop", 3)).order = << 2, 3, 1, 4 >>
  /\ handleDrop(Scene(<< 1, 2, 3, 4 >>, 4, "drop", 2)).order = << 1, 4, 2, 3 >>

\* An item was dragged upwards onto a target that was not its neighbour.
C1_Witness ==
  /\ AcceptedDrop
  /\ PositionOf(last.from, last.was) > PositionOf(last.from, last.ev.target) + 1
  /\ order[last.inst] # last.from

\* C2: an accepted drop invokes onDrop exactly once, after the order has
\* been mutated, with oldpos = index of the dragged item and newpos = index
\* of the target, both in the item sequence as it was before the move.
C2_OnDropPayload ==
  AcceptedDrop =>
    /\ HookNames = << "onDrop" >>
    /\ last.hooks[1].order = order[last.inst]
    /\ last.hooks[1].order # last.from
    /\ last.hooks[1].ev.oldpos = PositionOf(last.from, last.was)
    /\ last.hooks[1].ev.newpos = PositionOf(last.from, last.ev.target)
    /\ last.ev.oldpos = last.hooks[1].ev.oldpos
    /\ last.ev.newpos = last.hooks[1].ev.newpos

\* An accepted drop reached the instance while the item and the container
\* both held a drop listener, and the target's index changed with the move.
C2_Witness ==
  /\ AcceptedDrop
  /\ listeners[last.inst][last.ev.target]["drop"] >= 1
  /\ listeners[last.inst][ListElem]["drop"] >= 1
  /\ PositionOf(order[last.inst], last.ev.target) # last.ev.newpos

\* C3: a drop on the dragged item itself changes neither the item order nor
\* the dragged reference and invokes no hook.
C3_SelfDropNoOp ==
  SelfDrop => OrderKept /\ SessionKept /\ last.hooks = << >>

\* A drop was delivered on the item being dragged.
C3_Witness == SelfDrop /\ dragging[last.inst] = last.ev.target

\* C4: dragover, dragenter, dragleave and drop delivered while no session is
\* active invoke no hook, leave the event's default handling and propagation
\* alone, keep the item order and leave the machine Idle.
C4_IdleGuard ==
  ( /\ last.op = "dispatch"
    /\ last.ev.type \in {"dragover", "dragenter", "dragleave", "drop"}
    /\ last.was = Null )
  => /\ last.hooks = << >>
     /\ Untouched(last.ev)
     /\ OrderKept
     /\ dragging[last.inst] = Null

\* A dragover reached a listener of an idle instance.
C4_Witness ==
  /\ Delivered("dragover")
  /\ last.was = Null
  /\ phase[last.inst] = "ready"

\* C5: whatever the state, a delivered dragend invokes onEnd and leaves the
\* machine Idle with the dragged reference cleared.
C5_DragEndResets ==
  Delivered("dragend") =>
    /\ dragging[last.inst] = Null
    /\ Len(last.hooks) = last.delivered
    /\ \A k \in 1 .. Len(last.hooks) : last.hooks[k].name = "onEnd"

\* A dragend ended a session in which no drop had moved anything.
C5_Witness ==
  /\ Delivered("dragend")
  /\ last.was # Null
  /\ order[last.inst] = [ k \in Items |-> k ]

\* C6 as stated: a dragstart delivered while a session is active is
\* rejected, i.e. it neither replaces the dragged reference nor invokes
\* onStart.
C6_StartRejectedWhileDragging ==
  (Delivered("dragstart") /\ last.was # Null) =>
    SessionKept /\ last.hooks = << >>

\* C6 as the code has it: dragstart is accepted in every state.  Every
\* delivered dragstart invokes onStart and makes the event target the
\* dragged item, replacing the one of a session that was still active; the
\* instance holds one dragged reference at a time.
C6_StartAlwaysAccepted ==
  /\ \A i \in Inst : dragging[i] \in Items \cup {Null}
  /\ Delivered("dragstart") =>
       /\ dragging[last.inst] = last.ev.target
       /\ Len(last.hooks) = last.delivered
       /\ \A k \in 1 .. Len(last.hooks) : last.hooks[k].name = "onStart"

\* A dragstart on another item arrived while a session was active.
C6_Witness ==
  /\ Delivered("dragstart")
  /\ last.was # Null
  /\ last.was # last.ev.target
  /\ dragging[last.inst] = last.ev.target

\* The set of event names for which element e of instance i has a
\* subscription in the registry.
Subscribed(i, e) ==
  IF e \in DOMAIN registration[i] THEN registration[i][e] ELSE {}

\* The items a makeDraggable call without error went through.
Resolved(elems) ==
  IF Len(elems) = 0 THEN Items ELSE { elems[k] : k \in 1 .. Len(elems) }

\* The instance of the last call binds its items directly.
LastDirect == ~ opts[last.inst].delegated

\* C7: idempotent enable.  Whatever calls were made, no element holds more
\* than one live listener per drag event name, and the live listeners are
\* those of the registry; after makeDraggable(true) on a non-delegated
\* instance (also when repeated) every item it went through has exactly one
\* live subscription per event, so that an event dispatched at an element
\* whose container holds no listener invokes its hook at most once.
C7_IdempotentEnable ==
  /\ \A i \in Inst, e \in Elems, n \in EventNames :
       /\ listeners[i][e][n] <= 1
       /\ listeners[i][e][n] = 1 <=> n \in Subscribed(i, e)
  /\ ( /\ last.op = "makeDraggable"
       /\ last.enabled
       /\ last.error = "none"
       /\ LastDirect )
     => \A e \in Resolved(last.elems), n \in EventNames :
          listeners[last.inst][e][n] = 1
  /\ ( /\ last.op = "dispatch"
       /\ listeners[last.inst][ListElem][last.ev.type] = 0 )
     => /\ last.delivered = listeners[last.inst][last.ev.target][last.ev.type]
        /\ Len(last.hooks) <= 1

\* makeDraggable(true) was called twice in a row on a non-delegated
\* instance.
C7_Witness ==
  /\ last.op = "makeDraggable"
  /\ last.again
  /\ last.enabled
  /\ last.elems = << >>
  /\ LastDirect
  /\ \A e \in Items, n \in EventNames : listeners[last.inst][e][n] = 1

\* The delegated subscriptions of the instance were switched off.
DelegationOff(i) ==
  /\ phase[i] = "ready"
  /\ opts[i].delegated
  /\ ListElem \in DOMAIN registration[i]
  /\ registration[i][ListElem] = {}

\* C8: idempotent disable.  registerDelegation(false), called once or
\* repeatedly, raises no error and leaves the container without a live
\* listener; on a delegated instance, an event dispatched at an item after
\* that runs no listener, invokes no hook and changes neither the session
\* nor the item order.
C8_IdempotentDisable ==
  /\ (last.op = "registerDelegation" /\ ~ last.enabled)
     => /\ last.error = "none"
        /\ \A n \in EventNames : listeners[last.inst][ListElem][n] = 0
        /\ Subscribed(last.inst, ListElem) = {}
  /\ (last.op = "dispatch" /\ DelegationOff(last.inst))
     => /\ last.delivered = 0
        /\ last.hooks = << >>
        /\ Untouched(last.ev)
        /\ SessionKept
        /\ OrderKept

\* With the delegation switched off during a session, a drop on another
\* item than the dragged one was dispatched.
C8_Witness ==
  /\ last.op = "dispatch"
  /\ last.ev.type = "drop"
  /\ DelegationOff(last.inst)
  /\ last.was # Null
  /\ last.was # last.ev.target

\* C9: makeDraggable(enabled, items?) sets the draggable attribute of every
\* item it resolves (all current items when none are given) to `enabled`.
\* On a non-delegated instance it installs (enabled) or removes (disabled)
\* the direct subscriptions of those items; on a delegated instance it
\* leaves the registry and the listeners, the container's included, as they
\* were.
C9_MakeDraggableEffect ==
  /\ [](( /\ last.op = "makeDraggable"
          /\ last.error = "none" )
        => \A e \in Resolved(last.elems) :
             /\ draggable[last.inst][e] = IF last.enabled THEN "true" ELSE "false"
             /\ LastDirect =>
                  /\ Subscribed(last.inst, e)
                       = IF last.enabled THEN EventNames ELSE {}
                  /\ \A n \in EventNames :
                       listeners[last.inst][e][n] = IF last.enabled THEN 1 ELSE 0)
  /\ [][ \A i \in Inst :
           ( /\ last'.op = "makeDraggable"
             /\ last'.inst = i
             /\ opts[i].delegated )
           => /\ registration'[i] = registration[i]
              /\ listeners'[i] = listeners[i] ]_vars

\* makeDraggable(false) without items ran on a delegated instance whose
\* container holds the delegated subscriptions.
C9_Witness ==
  /\ last.op = "makeDraggable"
  /\ ~ last.enabled
  /\ last.elems = << >>
  /\ ~ LastDirect
  /\ Subscribed(last.inst, ListElem) = EventNames
  /\ \A e \in Items : draggable[last.inst][e] = "false"

\* C10: construction fails fast.  When the container reference resolves to
\* no element the constructor throws, and by then no listener has been
\* installed, the touch adapter has not been wired and no draggable
\* attribute has been changed.
C10_ConstructionFailsFast ==
  \A i \in Inst :
    phase[i] = "failed" =>
      /\ last.op = "constructor"
      /\ last.inst = i
      /\ last.error = "TypeError"
      /\ ~ last.touch
      /\ \A e \in Elems, n \in EventNames : listeners[i][e][n] = 0
      /\ registration[i] = << >>
      /\ \A e \in Items : draggable[i][e] = "none"

\* The constructor failed under options that would have wired the touch
\* adapter and registered every item.
C10_Witness ==
  /\ phase["a"] = "failed"
  /\ last.opts.enableTouch
  /\ ~ last.opts.delegated
  /\ last.opts.autoRegister = "true"

\* The last call was a constructor that returned an instance.
Constructed ==
  /\ last.op = "constructor"
  /\ last.error = "none"
  /\ phase[last.inst] = "ready"

\* What the options of the last constructor call ask for.
WantsItems ==
  \/ last.opts.autoRegister = "true"
  \/ last.opts.autoRegister = "null" /\ ~ last.opts.delegated

\* C11: binding strategy at construction.  After a successful construction
\* the container holds the six delegated subscriptions iff `delegated` is
\* true, and makeDraggable(true) has been applied to all current items iff
\* autoRegister is true, or autoRegister is null and `delegated` is false:
\* the items are then draggable, and directly subscribed iff the instance is
\* non-delegated.  With the defaults only the delegation is installed.
C11_BindingAtConstruction ==
  Constructed =>
    LET i == last.inst IN
    /\ \A n \in EventNames :
         listeners[i][ListElem][n] = IF last.opts.delegated THEN 1 ELSE 0
    /\ Subscribed(i, ListElem) = IF last.opts.delegated THEN EventNames ELSE {}
    /\ \A e \in Items :
         /\ draggable[i][e] = IF WantsItems THEN "true" ELSE "none"
         /\ \A n \in EventNames :
              listeners[i][e][n]
                = IF WantsItems /\ ~ last.opts.delegated THEN 1 ELSE 0
    /\ last.opts.autoRegister = DEF_OPTS.autoRegister
       /\ last.opts.delegated = DEF_OPTS.delegated
       => /\ \A e \in Items, n \in EventNames : listeners[i][e][n] = 0
          /\ \A e \in Items : draggable[i][e] = "none"
          /\ \A n \in EventNames : listeners[i][ListElem][n] = 1

\* A non-delegated instance was constructed with autoRegister: false, and
\* holds no listener at all.
C11_Witness ==
  /\ Constructed
  /\ ~ last.opts.delegated
  /\ last.opts.autoRegister = "false"
  /\ \A e \in Elems, n \in EventNames : listeners[last.inst][e][n] = 0

\* Everything instance i owns: its fields and the DOM under its container.
Owned(i) ==
  << phase[i], opts[i], dragging[i], registration[i], listeners[i],
     order[i], draggable[i], entered[i], classes[i] >>

\* C12: instance isolation.  Events dispatched to one instance and
\* enable/disable calls on it leave the dragged reference, the registry,
\* the configuration and the item order (and the rest of the DOM) of the
\* other instance, which sits over another container, unchanged.
C12_InstanceIsolation ==
  [][ \A i \in Inst : last'.inst # i => Owned(i)' = Owned(i) ]_vars

\* Instance a accepted a drop while instance b, bound the other way, was in
\* a session of its own with its items in another order.
C12_Witness ==
  /\ last.inst = "a"
  /\ AcceptedDrop
  /\ dragging["b"] # Null
  /\ dragging["b"] # dragging["a"]
  /\ order["b"] # order["a"]
  /\ opts["b"].delegated # opts["a"].delegated

\* How often x occurs in the item sequence.
Occurrences(seq, x) == Cardinality({ k \in 1 .. Len(seq) : seq[k] = x })

\* The item sequence with x left out.
Without(seq, x) == SelectSeq(seq, LAMBDA y : y # x)

\* C13: reorder is a single relocation.  After any sequence of events the
\* item sequence of every container is a permutation of its initial items,
\* none lost and none duplicated, and an accepted drop leaves the relative
\* order of all items but the dragged one as it was before the drop.
C13_SingleRelocation ==
  /\ \A i \in Inst :
       /\ Len(order[i]) = NItems
       /\ \A x \in Items : Occurrences(order[i], x) = 1
  /\ AcceptedDrop =>
       Without(order[last.inst], last.was) = Without(last.from, last.was)

\* A drop was accepted on a list that earlier drops had already reordered,
\* and it moved the dragged item downwards.
C13_Witness ==
  /\ AcceptedDrop
  /\ last.from # [ k \in Items |-> k ]
  /\ order[last.inst] # [ k \in Items |-> k ]
  /\ last.ev.oldpos < last.ev.newpos

\* C14: newpos is the position the dragged item was moved to.  After every
\* accepted drop the index of the dragged item in the item sequence equals
\* the newpos given to onDrop (the index the target had before the move),
\* and oldpos is the index the dragged item had before the move.
C14_NewposIsFinalIndex ==
  AcceptedDrop =>
    /\ HookNames = << "onDrop" >>
    /\ PositionOf(order[last.inst], last.was) = last.hooks[1].ev.newpos
    /\ PositionOf(last.from, last.was) = last.hooks[1].ev.oldpos

\* An item was dragged over more than one neighbour, in either direction.
C14_Witness ==
  /\ AcceptedDrop
  /\ \/ last.ev.newpos > last.ev.oldpos + 1
     \/ last.ev.oldpos > last.ev.newpos + 1
  /\ PositionOf(order[last.inst], last.was) = last.ev.newpos

\* C15: the session lives from dragstart to the next dragend.  Only a
\* delivered dragstart or dragend changes the dragged reference; dragover,
\* dragenter, dragleave and drop (accepted, on the dragged item itself, or
\* ignored) never do, so that after an accepted drop the machine is still
\* Dragging with the same item.
C15_SessionSpansStartToEnd ==
  /\ (last.op = "dispatch" /\ last.ev.type \notin {"dragstart", "dragend"})
     => SessionKept
  /\ (last.op = "dispatch" /\ last.delivered = 0) => SessionKept
  /\ AcceptedDrop => dragging[last.inst] = last.was /\ last.was \in Items

\* A second drop of the same session was accepted: the list had been
\* reordered before, and the dragged item is still held.
C15_Witness ==
  /\ AcceptedDrop
  /\ last.from # [ k \in Items |-> k ]
  /\ dragging[last.inst] = last.was

\* C16 as stated: inside dragend the dragged reference is cleared first and
\* onEnd runs afterwards, so that onEnd always finds the dragged reference
\* null; and onStart finds it set to the event target.
C16_EndHookSeesNoSession ==
  \A k \in 1 .. Len(last.hooks) :
    /\ last.hooks[k].name = "onEnd" => last.hooks[k].dragging = Null
    /\ last.hooks[k].name = "onStart"
         => last.hooks[k].dragging = last.hooks[k].ev.target

\* C16 as the code has it: inside dragend onEnd runs first and the dragged
\* reference is cleared afterwards, so that the onEnd of the first listener
\* finds the dragged reference as the event found it (the dragged item of
\* the session that ends) and it is null once the handler has returned;
\* onStart finds it already set to the event target.
C16_EndHookSeesSession ==
  /\ Delivered("dragend") =>
       /\ last.hooks[1].name = "onEnd"
       /\ last.hooks[1].dragging = last.was
       /\ \A k \in 2 .. Len(last.hooks) : last.hooks[k].dragging = Null
       /\ dragging[last.inst] = Null
  /\ \A k \in 1 .. Len(last.hooks) :
       last.hooks[k].name = "onStart"
         => last.hooks[k].dragging = last.hooks[k].ev.target

\* A dragend ended an active session, and its onEnd hook ran.
C16_Witness ==
  /\ Delivered("dragend")
  /\ last.was # Null
  /\ last.hooks[1].dragging = last.was

\* C17 as stated: the default is prevented and the propagation stopped for
\* an accepted drop only; a drop on the dragged item itself leaves the event
\* untouched.
C17_SelfDropUntouched ==
  /\ AcceptedDrop => last.ev.defaultPrevented /\ last.ev.propagationStopped
  /\ SelfDrop => Untouched(last.ev)

\* C17 as the code has it: the default is prevented and the propagation
\* stopped for every drop delivered while a session is active, the drop on
\* the dragged item itself included (which invokes no hook all the same);
\* only a drop delivered while Idle leaves the event untouched.
C17_DropInSessionSuppressed ==
  /\ DropInSession =>
       /\ last.ev.defaultPrevented
       /\ last.ev.propagationStopped
       /\ last.ev.immediateStopped
       /\ last.delivered = 1
  /\ SelfDrop => last.hooks = << >> /\ OrderKept
  /\ (Delivered("drop") /\ last.was = Null) => Untouched(last.ev)

\* A drop on the dragged item itself was delivered.
C17_Witness ==
  /\ SelfDrop
  /\ last.ev.defaultPrevented
  /\ last.ev.propagationStopped

\* Some live listener of instance i receives an event `name` dispatched at
\* item e: one of the item's own, or one of the container's.
Hears(i, name, e) ==
  listeners[i][e][name] + listeners[i][ListElem][name] > 0

\* C19: registerDelegation(enabled) and makeDraggable(enabled, ...) never
\* touch the session: whenever one of them ran, the dragged reference and
\* the item order are what the call found.  So an event that no listener
\* receives (the dragend of a session whose listeners were switched off)
\* leaves the instance Dragging, and in every state where a dragged
\* reference is held and listeners are live, however they came to be live,
\* a dragover is accepted and a drop on another item reorders the list.
C19_BindingKeepsSession ==
  /\ last.op \in {"registerDelegation", "makeDraggable"}
       => SessionKept /\ OrderKept
  /\ (last.op = "dispatch" /\ last.delivered = 0) => SessionKept /\ OrderKept
  /\ \A i \in Inst, e \in Items :
       dragging[i] # Null =>
         /\ Hears(i, "dragover", e)
              => DispatchEvent(Self(i), "dragover", e).ev.defaultPrevented
         /\ (Hears(i, "drop", e) /\ e # dragging[i])
              => DispatchEvent(Self(i), "drop", e).order # order[i]
         /\ ~ Hears(i, "dragend", e)
              => DispatchEvent(Self(i), "dragend", e).dragging = dragging[i]

\* The delegation was switched off in the middle of a session: the instance
\* still holds the dragged item, and no listener is left to receive the
\* dragend.
C19_Witness ==
  /\ last.op = "registerDelegation"
  /\ ~ last.enabled
  /\ last.was # Null
  /\ dragging[last.inst] = last.was
  /\ \A e \in Items : ~ Hears(last.inst, "dragend", e)

\* The position of the first argument of the last makeDraggable call that
\* does not resolve to an element (one past the end when all resolve).
FirstInvalid(elems) ==
  IF \E k \in 1 .. Len(elems) : elems[k] \notin Items
    THEN CHOOSE k \in 1 .. Len(elems) :
           /\ elems[k] \notin Items
           /\ \A j \in 1 .. k - 1 : elems[j] \in Items
    ELSE Len(elems) + 1

\* C20: makeDraggable goes through its arguments in order and throws at the
\* first one that does not resolve to an element.  The call reports the
\* TypeError exactly when such an argument exists; the items named before
\* it have their draggable attribute set to `enabled` (and, on a
\* non-delegated instance, their subscriptions installed or removed); every
\* other item, those named after the failing argument included, keeps its
\* attribute, its registry entry and its listeners, and the session, the
\* item order and the container's listeners are as they were.
C20_FailsAtFirstInvalid ==
  /\ [](last.op = "makeDraggable"
          => (last.error = "TypeError"
                <=> \E k \in 1 .. Len(last.elems) : last.elems[k] \notin Items))
  /\ [][ \A i \in Inst :
           ( /\ last'.op = "makeDraggable"
             /\ last'.inst = i
             /\ last'.error = "TypeError" )
           => LET elems == last'.elems
                  done  == { elems[j] : j \in 1 .. FirstInvalid(elems) - 1 }
                  flag  == IF last'.enabled THEN "true" ELSE "false"
              IN  /\ \A e \in done :
                        /\ draggable'[i][e] = flag
                        /\ ~ opts[i].delegated =>
                             /\ Subscribed(i, e)'
                                  = IF last'.enabled THEN EventNames ELSE {}
                             /\ \A n \in EventNames :
                                  listeners'[i][e][n]
                                    = IF last'.enabled THEN 1 ELSE 0
                  /\ \A e \in Items \ done :
                        /\ draggable'[i][e] = draggable[i][e]
                        /\ Subscribed(i, e)' = Subscribed(i, e)
                        /\ listeners'[i][e] = listeners[i][e]
                  /\ listeners'[i][ListElem] = listeners[i][ListElem]
                  /\ dragging'[i] = dragging[i]
                  /\ order'[i] = order[i] ]_vars

\* makeDraggable(true, item 1, no element) threw on a non-delegated
\* instance: item 1 is draggable and subscribed, item 2 is not.
C20_Witness ==
  /\ last.op = "makeDraggable"
  /\ last.error = "TypeError"
  /\ last.enabled
  /\ last.elems = << 1, Bad >>
  /\ LastDirect
  /\ draggable[last.inst][1] = "true"
  /\ Subscribed(last.inst, 1) = EventNames
  /\ draggable[last.inst][2] # "true"

\* The items of the page that the pointer has entered and not yet left.
DraggedOver == { gesture.over[k] : k \in 1 .. Len(gesture.over) }

\* The instance has handled every event of the gesture in progress, if any:
\* it was built, with its listeners, before the drag began.
Tracking(i) == gesture.active => dragging[i] # Null

\* C18 as stated: with ClassyPreset, an item carries dragOverClass exactly
\* when a session is active and the item is dragged over (between two items
\* the pointer is over both, and either may carry the class); at most one
\* item carries the class at a time; after dragend no item carries it.
C18_HighlightTracksPointer ==
  \A i \in SpecInst :
    (opts[i].preset = "classy" /\ Tracking(i)) =>
      /\ Cardinality(classes[i]) <= 1
      /\ classes[i] \subseteq DraggedOver
      /\ (dragging[i] # Null /\ DraggedOver # {}) => classes[i] # {}
      /\ dragging[i] = Null => classes[i] = {}

\* What ClassyPreset does guarantee: an item carries the class only while a
\* session is active, the item that the pointer comes over first in a
\* gesture carries it while nothing else has been entered, and the dragend
\* takes it from every item.
C18_HighlightWithinSession ==
  \A i \in SpecInst :
    opts[i].preset = "classy" =>
      /\ classes[i] # {} => dragging[i] # Null
      /\ Delivered("dragend") => classes[i] = {}
      /\ ( /\ Delivered("dragenter")
           /\ Len(last.hooks) = 1
           /\ entered[i] = 1 )
         => last.ev.target \in classes[i]

\* The pointer went from one item to the next and the class stayed behind:
\* the item dragged over carries none, an item the pointer has left does.
C18_Witness ==
  /\ opts[last.inst].preset = "classy"
  /\ dragging[last.inst] # Null
  /\ Len(gesture.over) = 1
  /\ classes[last.inst] # {}
  /\ classes[last.inst] \cap DraggedOver = {}

=============================================================================
